---------------------------- MODULE Spec2Model ----------------------------
(***************************************************************************)
(* A model of src/shearwater_predator_parser.c: the Shearwater Predator /  *)
(* Petrel dive-log parser of libdivecomputer.  The parser object, the      *)
(* layout cache pass (shearwater_predator_parser_cache) and the three      *)
(* readers (get_datetime, get_field, samples_foreach) are translated from  *)
(* the C source; the buffer the parser is given is a sequence of bytes, so *)
(* that every read of the code is a read of a byte.                        *)
(***************************************************************************)
EXTENDS Integers, Sequences, FiniteSets, TLC

VARIABLES
    parser,     \* the shearwater_predator_parser_t object (cached fields, strings)
    data,       \* abstract->data / abstract->size: the buffer bound by set_data
    op,         \* the entry point that ran last
    rc,         \* the dc_status_t it returned ("FAULT": the process died in it)
    out,        \* the value it stored through its out-parameter
    emitted,    \* the callback invocations of the last samples_foreach, in order
    maxread,    \* the highest buffer offset the last entry point read (-1: none)
    diag,       \* the last ERROR/WARNING message handed to the context
    hasCallback, \* whether the last samples_foreach was given a callback
    snap,       \* history: the derived state after the first successful cache
                \* pass on the bytes currently bound (<<>> before it)
    replaced    \* history: the last set_data replaced a buffer whose layout
                \* was cached by other bytes

vars == <<parser, data, op, rc, out, emitted, maxread, diag, hasCallback, snap, replaced>>

---------------------------------------------------------------------------
(* Program constants. *)

LOG_RECORD_DIVE_SAMPLE == 1
LOG_RECORD_FREEDIVE_SAMPLE == 2
LOG_RECORD_OPENING_0 == 16
LOG_RECORD_OPENING_7 == 23
LOG_RECORD_CLOSING_0 == 32
LOG_RECORD_CLOSING_7 == 39
LOG_RECORD_INFO_EVENT == 48
LOG_RECORD_FINAL == 255

SZ_BLOCK == 128
SZ_SAMPLE_PREDATOR == 16
SZ_SAMPLE_PETREL == 32
SZ_SAMPLE_FREEDIVE == 8

PPO2_EXTERNAL == 2
SETPOINT_HIGH == 4
OC == 16

METRIC == 0
IMPERIAL == 1

NGASMIXES == 10
MAXSTRINGS == 32
NRECORDS == 7

PREDATOR == 2
PETREL == 3

INFO_EVENT_TAG_LOG == 38

\* #define UNDEFINED 0xFFFFFFFF.  unsigned int values are kept as integers
\* congruent to them modulo 2^32 (the checker's integers are 32 bits wide and
\* signed), so the all-ones word is -1 and UNDEFINED + 23 is 22, as it is in
\* unsigned arithmetic.
UNDEFINED == -1

\* an offset of 2^32 or more (an address formed from a 64-bit pointer and
\* UNDEFINED), kept as the largest integer
FarOffset == 2147483647

\* parser->atmospheric = ATM / (BAR / 1000) with ATM = 101325, BAR = 100000
DefaultAtmospheric == 1013
DefaultDensity == 1025

---------------------------------------------------------------------------
(* Bounds of the model. *)

\* longest run of sample-stream records placed between the opening and the
\* closing records of a generated buffer
MaxBody == 2
\* longest run of dive samples that each switch to a gas mix not seen before
MaxRamp == 11

---------------------------------------------------------------------------
(* Small helpers. *)

Hi(v) == (v \div 256) % 256
Lo(v) == v % 256
Max(a, b) == IF a >= b THEN a ELSE b
BitSet(v, bit) == (v \div bit) % 2 = 1

RECURSIVE SeqsUpTo(_, _)
SeqsUpTo(S, n) ==
    IF n = 0 THEN {<<>>}
    ELSE LET shorter == SeqsUpTo(S, n - 1)
         IN  shorter \cup {Append(q, x) : q \in {r \in shorter : Len(r) = n - 1}, x \in S}

---------------------------------------------------------------------------
(* The byte buffers handed to set_data.  A buffer is a sequence of bytes;  *)
(* the buffers of the model are the images of small descriptors, laid out  *)
(* as the dive computer writes them: the Petrel Native Format is a run of  *)
(* 32-byte records that each start with a type byte; the legacy format is  *)
(* a 128 byte opening block, the samples, a 128 byte closing block and, on *)
(* the newer firmware, a 128 byte final block that starts with 0xFFFD.     *)

\* the dive-wide settings stored in the opening records / the opening block
Header(lv, ival, units, en, cal, deco) ==
    [lv |-> lv, ival |-> ival, units |-> units, en |-> en, cal |-> cal, deco |-> deco]

\* one 32 (or 16) byte record of the sample stream
Rec(k, x, o2, he, st, tmp, p1, p2) ==
    [k |-> k, x |-> x, o2 |-> o2, he |-> he, st |-> st, tmp |-> tmp, p1 |-> p1, p2 |-> p2]

Dive(o2, he, st, tmp, p1, p2) == Rec("dive", 0, o2, he, st, tmp, p1, p2)
Opening(i) == Rec("open", i, 0, 0, 0, 0, 0, 0)
Closing(i) == Rec("close", i, 0, 0, 0, 0, 0, 0)
Freedive(live) == Rec("free", live, 0, 0, 0, 0, 0, 0)
ZeroRec == Rec("zero", 0, 0, 0, 0, 0, 0, 0)
TagEvent == Rec("event", 0, 0, 0, 0, 0, 0, 0)
FinalRec == Rec("final", 0, 0, 0, 0, 0, 0, 0)

\* the fields of a dive sample, f counted from the start of the sample
DiveByte(r, f) ==
    CASE f = 1 -> 100                    \* depth 10.0
      [] f = 3 -> IF r.st = 0 THEN 30 ELSE 0   \* deco stop depth
      [] f = 6 -> 120                    \* average ppO2
      [] f = 7 -> r.o2
      [] f = 8 -> r.he
      [] f = 9 -> 5                      \* time to surface / NDL
      [] f = 11 -> r.st
      [] f = 12 -> 50
      [] f = 13 -> r.tmp
      [] f = 14 -> 51
      [] f = 15 -> 52
      [] f = 18 -> 130                   \* setpoint
      [] f = 19 -> Hi(r.p2)
      [] f = 20 -> Lo(r.p2)
      [] f = 21 -> IF r.p1 >= 65520 THEN 255 ELSE 30   \* gas time remaining
      [] f = 22 -> 7                     \* CNS
      [] f = 27 -> Hi(r.p1)
      [] f = 28 -> Lo(r.p1)
      [] OTHER -> 0

\* the dive-wide fields; the opening records of the PNF and the opening
\* block of the legacy format hold the same fields at different offsets
SettingsByte(h, cls, f) ==
    CASE cls = 0 /\ f = 4 -> 30          \* GF low
      [] cls = 0 /\ f = 5 -> 70          \* GF high
      [] cls = 0 /\ f = 8 -> h.units
      [] cls = 0 /\ f = 9 -> 15          \* battery voltage at end
      [] cls = 0 /\ f = 14 -> 3          \* dive start 1000 = 0x000003E8
      [] cls = 0 /\ f = 15 -> 232
      [] cls = 0 /\ f = 19 -> 83         \* firmware
      [] cls = 1 /\ f = 16 -> 3          \* atmospheric 1013
      [] cls = 1 /\ f = 17 -> 245
      [] cls = 2 /\ f = 18 -> h.deco
      [] cls = 2 /\ f = 19 -> 3
      [] cls = 3 /\ f = 3 -> 3           \* density 1000
      [] cls = 3 /\ f = 4 -> 232
      [] cls = 3 /\ f = 5 -> 90
      [] cls = 3 /\ f = 6 -> h.en
      [] cls = 3 /\ f \in 7..12 ->
            IF f % 2 = 1 THEN Hi(h.cal[(f - 5) \div 2]) ELSE Lo(h.cal[(f - 6) \div 2])
      [] cls = 4 /\ f = 9 -> 5           \* battery type
      [] cls = 4 /\ f = 16 -> h.lv
      [] cls = 5 /\ f = 23 -> Hi(h.ival)
      [] cls = 5 /\ f = 24 -> Lo(h.ival)
      [] OTHER -> 0

\* a closing record: maximum depth 300, dive time 0x000E10 = 3600
ClosingByte(cls, f) ==
    CASE cls = 0 /\ f = 4 -> 1
      [] cls = 0 /\ f = 5 -> 44
      [] cls = 0 /\ f = 7 -> 14
      [] cls = 0 /\ f = 8 -> 16
      [] OTHER -> 0

\* a tag event one minute into the dive, heading 90, tag type 2
EventByte(f) ==
    CASE f = 0 -> LOG_RECORD_INFO_EVENT
      [] f = 1 -> INFO_EVENT_TAG_LOG
      [] f = 6 -> 4
      [] f = 7 -> 36
      [] f = 11 -> 90
      [] f = 15 -> 2
      [] OTHER -> 0

\* a freedive record: r.x live 8-byte sub-samples, the rest zero padding
FreediveByte(r, f) ==
    CASE f = 0 -> LOG_RECORD_FREEDIVE_SAMPLE
      [] f \div SZ_SAMPLE_FREEDIVE >= r.x -> 0
      [] f % SZ_SAMPLE_FREEDIVE = 1 -> 4     \* absolute pressure 1100 mbar
      [] f % SZ_SAMPLE_FREEDIVE = 2 -> 76
      [] f % SZ_SAMPLE_FREEDIVE = 4 -> 200   \* temperature 20.0
      [] OTHER -> 0

\* a record of a PNF buffer (s = 1: the samples follow the type byte)
PnfRecByte(h, r, f) ==
    CASE r.k = "dive" -> IF f = 0 THEN LOG_RECORD_DIVE_SAMPLE ELSE DiveByte(r, f - 1)
      [] r.k = "free" -> FreediveByte(r, f)
      [] r.k = "event" -> EventByte(f)
      [] r.k = "final" -> IF f = 0 THEN LOG_RECORD_FINAL ELSE IF f = 1 THEN 253 ELSE 0
      [] r.k = "open" -> IF f = 0 THEN LOG_RECORD_OPENING_0 + r.x ELSE SettingsByte(h, r.x, f)
      [] r.k = "close" -> IF f = 0 THEN LOG_RECORD_CLOSING_0 + r.x ELSE ClosingByte(r.x, f)
      [] OTHER -> 0

\* the legacy opening block
LegacyHeaderByte(h, f) ==
    CASE f \in {0, 1} -> 255
      [] f \in {4, 5, 8, 9, 14, 15, 19} -> SettingsByte(h, 0, f)
      [] f = 17 -> 70                    \* low setpoint
      [] f = 18 -> 130                   \* high setpoint
      [] f \in {47, 48} -> SettingsByte(h, 1, f - 31)
      [] f \in {67, 68} -> SettingsByte(h, 2, f - 49)
      [] f \in 83..92 -> SettingsByte(h, 3, f - 80)
      [] f = 120 -> SettingsByte(h, 4, 9)
      [] f = 127 -> h.lv
      [] OTHER -> 0

\* the legacy closing block (marker 0xFFFE, maximum depth 30, 60 minutes)
LegacyFooterByte(f) ==
    CASE f = 0 -> 255
      [] f = 1 -> 254
      [] f = 5 -> 30
      [] f = 7 -> 60
      [] OTHER -> 0

PnfDescriptor(h, recs) ==
    [fmt |-> "pnf", ssz |-> SZ_SAMPLE_PETREL, hdr |-> h, recs |-> recs, fin |-> FALSE, n |-> 0]
LegacyDescriptor(ssz, h, recs, fin) ==
    [fmt |-> "legacy", ssz |-> ssz, hdr |-> h, recs |-> recs, fin |-> fin, n |-> 0]
FillDescriptor(n, fill) ==
    [fmt |-> "fill", ssz |-> fill, hdr |-> Header(0, 0, 0, 0, <<0, 0, 0>>, 0),
     recs |-> <<>>, fin |-> FALSE, n |-> n]

\* the number of bytes a descriptor stands for
ImageSize(x) ==
    CASE x.fmt = "pnf" -> SZ_SAMPLE_PETREL * Len(x.recs)
      [] x.fmt = "legacy" ->
            SZ_BLOCK + x.ssz * Len(x.recs) + SZ_BLOCK + (IF x.fin THEN SZ_BLOCK ELSE 0)
      [] OTHER -> x.n

\* the byte at off, for 0 <= off < ImageSize(x)
ImageByte(x, off) ==
    CASE x.fmt = "pnf" ->
            PnfRecByte(x.hdr, x.recs[off \div SZ_SAMPLE_PETREL + 1], off % SZ_SAMPLE_PETREL)
      [] x.fmt = "legacy" ->
            LET body == off - SZ_BLOCK
                foot == body - x.ssz * Len(x.recs)
            IN  IF body < 0 THEN LegacyHeaderByte(x.hdr, off)
                ELSE IF foot < 0 THEN
                    LET r == x.recs[body \div x.ssz + 1]
                    IN  IF r.k = "dive" THEN DiveByte(r, body % x.ssz) ELSE 0
                ELSE IF foot < SZ_BLOCK THEN LegacyFooterByte(foot)
                ELSE IF foot = SZ_BLOCK THEN 255
                ELSE IF foot = SZ_BLOCK + 1 THEN 253
                ELSE 0
      [] OTHER -> x.ssz

\* the bytes of a buffer, abstract->data[0 .. size - 1]
Image(x) == [i \in 1..ImageSize(x) |-> ImageByte(x, i - 1)]

PnfBuffer(h, recs) == Image(PnfDescriptor(h, recs))
LegacyBuffer(ssz, h, recs, fin) == Image(LegacyDescriptor(ssz, h, recs, fin))
\* n bytes that all hold the value fill
FillBuffer(n, fill) == Image(FillDescriptor(n, fill))

\* abstract->size
Size(d) == Len(d)

\* abstract->data[off], for 0 <= off < Size(d)
Byte(d, off) == d[off + 1]

---------------------------------------------------------------------------
(* array.h primitives and the small helpers of the parser. *)

array_uint16_be(d, off) == Byte(d, off) * 256 + Byte(d, off + 1)
array_uint24_be(d, off) == Byte(d, off) * 65536 + Byte(d, off + 1) * 256 + Byte(d, off + 2)
\* a 32-bit word from its halves, as the integer congruent to it modulo 2^32
Word32(hi, lo) == (IF hi >= 32768 THEN hi - 65536 ELSE hi) * 65536 + lo
\* a - b in unsigned int arithmetic
Sub32(a, b) ==
    LET lo == (a % 65536) - (b % 65536)
        borrow == IF lo < 0 THEN 1 ELSE 0
        hi == ((a \div 65536) % 65536) - ((b \div 65536) % 65536) - borrow
    IN  Word32(hi % 65536, lo % 65536)
\* a <= b for an unsigned int a and a small constant b
ULe(a, b) == a >= 0 /\ a <= b
array_uint32_be(d, off) == Word32(array_uint16_be(d, off), array_uint16_be(d, off + 2))
array_isequal(d, off, n, v) == \A i \in 0..(n - 1) : Byte(d, off + i) = v

\* a | b on the three battery-state bits
BitOr(a, b) ==
    LET bit(k) == IF BitSet(a, k) \/ BitSet(b, k) THEN k ELSE 0
    IN  bit(1) + bit(2) + bit(4)

battery_state(d, off) ==
    LET pressure == array_uint16_be(d, off)
        state == pressure \div 4096
    IN  IF pressure \div 16 = 4095 THEN 0
        ELSE IF state > 2 THEN 0
        ELSE 2 ^ state

\* the first free slot of strings[] takes the pair; a full table drops it
add_string(strings, desc, value) ==
    IF Len(strings) < MAXSTRINGS
    THEN Append(strings, [desc |-> desc, value |-> value])
    ELSE strings

BatteryStatesWarningFirst ==
    <<"normal", "critical", "critical", "warning", "warning", "warning", "warning">>

BatteryStates == <<"normal", "critical", "critical", "warning", "warning", "critical", "critical">>

add_battery_info(strings, desc, state) ==
    IF state >= 1 /\ state <= 7
    THEN add_string(strings, desc, BatteryStates[state])
    ELSE strings

add_deco_model(strings, d, pnf, opening) ==
    LET idx_deco_model == IF pnf = 1 THEN opening[3] + 18 ELSE 67
        idx_gfs == IF pnf = 1 THEN opening[4] + 5 ELSE 85
        m == Byte(d, idx_deco_model)
    IN  CASE m = 0 -> add_string(strings, "Deco model", <<"GF", Byte(d, 4), Byte(d, 5)>>)
          [] m = 1 -> add_string(strings, "Deco model", <<"VPM-B", Byte(d, idx_deco_model + 1)>>)
          [] m = 2 -> add_string(strings, "Deco model",
                                 <<"VPM-B/GFS", Byte(d, idx_deco_model + 1), Byte(d, idx_gfs)>>)
          [] OTHER -> add_string(strings, "Deco model", <<"Unknown model", m>>)

BatteryTypes == <<"1.5V Alkaline", "1.5V Lithium", "1.2V NiMH", "3.6V Saft", "3.7V Li-Ion">>

add_battery_type(strings, d, pnf, opening, logversion) ==
    IF logversion < 7 THEN strings
    ELSE LET idx_battery_type == IF pnf = 1 THEN opening[5] + 9 ELSE 120
             t == Byte(d, idx_battery_type)
         IN  IF t \in 1..5 THEN add_string(strings, "Battery type", BatteryTypes[t])
             ELSE add_string(strings, "Battery type", <<"unknown type", t>>)

---------------------------------------------------------------------------
(* The parser object. *)

NoCalibration == [mv |-> 0, x22 |-> FALSE]

\* the cached fields as shearwater_common_parser_create and set_data set them
ResetCacheMissingOffsets(p) ==
    [p EXCEPT !.cached = 0, !.pnf = 0, !.logversion = 0, !.headersize = 0,
              !.footersize = 0, !.ngasmixes = 0,
              !.oxygen = [i \in 1..NGASMIXES |-> 0],
              !.helium = [i \in 1..NGASMIXES |-> 0],
              !.calibrated = 0,
              !.calibration = [i \in 1..3 |-> NoCalibration],
              !.mode = "OC", !.units = METRIC,
              !.density = DefaultDensity, !.atmospheric = DefaultAtmospheric]

ResetCache(p) ==
    [p EXCEPT !.cached = 0, !.pnf = 0, !.logversion = 0, !.headersize = 0,
              !.footersize = 0,
              !.opening = [i \in 1..NRECORDS |-> UNDEFINED],
              !.closing = [i \in 1..NRECORDS |-> UNDEFINED],
              !.final = UNDEFINED,
              !.ngasmixes = 0,
              !.oxygen = [i \in 1..NGASMIXES |-> 0],
              !.helium = [i \in 1..NGASMIXES |-> 0],
              !.calibrated = 0,
              !.calibration = [i \in 1..3 |-> NoCalibration],
              !.mode = "OC", !.units = METRIC,
              !.density = DefaultDensity, !.atmospheric = DefaultAtmospheric]

shearwater_common_parser_create(model, serial, petrel) ==
    [model |-> model, petrel |-> petrel,
     samplesize |-> IF petrel = 1 THEN SZ_SAMPLE_PETREL ELSE SZ_SAMPLE_PREDATOR,
     serial |-> serial,
     cached |-> 0, pnf |-> 0, logversion |-> 0, headersize |-> 0, footersize |-> 0,
     opening |-> [i \in 1..NRECORDS |-> UNDEFINED],
     closing |-> [i \in 1..NRECORDS |-> UNDEFINED],
     final |-> UNDEFINED,
     ngasmixes |-> 0,
     oxygen |-> [i \in 1..NGASMIXES |-> 0],
     helium |-> [i \in 1..NGASMIXES |-> 0],
     calibrated |-> 0,
     calibration |-> [i \in 1..3 |-> NoCalibration],
     mode |-> "OC", units |-> METRIC,
     density |-> DefaultDensity, atmospheric |-> DefaultAtmospheric,
     \* strings[] is first read after the memset of the cache pass
     strings |-> <<>>]

\* shearwater_predator_find_gasmix
FindGasmixByHelium(p, o2, he) ==
    LET hits == {i \in 0..(p.ngasmixes - 1) : he = p.helium[i + 1]}
    IN  IF hits = {} THEN p.ngasmixes ELSE CHOOSE i \in hits : \A j \in hits : i <= j

shearwater_predator_find_gasmix(p, o2, he) ==
    LET hits == {i \in 0..(p.ngasmixes - 1) : o2 = p.oxygen[i + 1] /\ he = p.helium[i + 1]}
    IN  IF hits = {} THEN p.ngasmixes ELSE CHOOSE i \in hits : \A j \in hits : i <= j

---------------------------------------------------------------------------
(* shearwater_predator_parser_cache: the layout cache pass. *)

\* if (parser->cached) return DC_STATUS_SUCCESS;
IsCached(p) == p.cached # 0

\* memset(parser->strings, 0, sizeof(parser->strings));
ClearStrings(strings) == <<>>

\* unsigned int pnf = parser->petrel ? array_uint16_be (data) != 0xFFFF : 0;
DetectPnf(p, d) ==
    IF p.petrel = 1 THEN (IF array_uint16_be(d, 0) # 65535 THEN 1 ELSE 0) ELSE 0

\* the final block is present: Petrel, or the last block starts with 0xFFFD
HasFinalBlock(p, d) ==
    p.petrel = 1 \/ array_uint16_be(d, Size(d) - SZ_BLOCK) = 65533

\* the search of the local gas mix table (lines 530-535)
CacheFindGasmix(a, o2, he) ==
    LET hits == {i \in 0..(a.ngasmixes - 1) : o2 = a.oxygen[i + 1] /\ he = a.helium[i + 1]}
    IN  IF hits = {} THEN a.ngasmixes ELSE CHOOSE i \in hits : \A j \in hits : i <= j

\* if (idx >= NGASMIXES) return DC_STATUS_NOMEMORY;
GasmixTableFullOneEarly(idx) == idx >= NGASMIXES - 1

GasmixTableFull(idx) == idx >= NGASMIXES

\* a store to opening[i] (i = type - LOG_RECORD_OPENING_0 runs to 7, the array
\* has NRECORDS = 7 elements: element 7 is the storage of closing[0])
StoreOpening(a, i, offset) ==
    IF i < NRECORDS THEN [a EXCEPT !.opening[i + 1] = offset]
    ELSE [a EXCEPT !.closing[1] = offset]

\* a store to closing[i] (element 7 is the storage of final)
StoreClosing(a, i, offset) ==
    IF i < NRECORDS THEN [a EXCEPT !.closing[i + 1] = offset]
    ELSE [a EXCEPT !.final = offset]

\* the body of the sweep for one non-empty record (lines 516-568)
CacheRecord(d, pnf, offset, a) ==
    LET type == IF pnf = 1 THEN Byte(d, offset) ELSE LOG_RECORD_DIVE_SAMPLE
    IN  IF type = LOG_RECORD_DIVE_SAMPLE THEN
            LET status == Byte(d, offset + 11 + pnf)
                mode == IF ~BitSet(status, OC) THEN "CCR" ELSE a.mode
                o2 == Byte(d, offset + 7 + pnf)
                he == Byte(d, offset + 8 + pnf)
                changed == o2 # a.o2_previous \/ he # a.he_previous
                idx == CacheFindGasmix(a, o2, he)
                add == changed /\ idx >= a.ngasmixes
            IN  IF add /\ GasmixTableFull(idx)
                THEN [a EXCEPT !.rc = "NOMEMORY", !.mode = mode,
                               !.diag = "Maximum number of gas mixes reached.",
                               !.maxread = Max(@, offset + 11 + pnf)]
                ELSE [a EXCEPT !.mode = mode,
                               !.oxygen = IF add THEN [@ EXCEPT ![idx + 1] = o2] ELSE @,
                               !.helium = IF add THEN [@ EXCEPT ![idx + 1] = he] ELSE @,
                               !.ngasmixes = IF add THEN idx + 1 ELSE @,
                               !.o2_previous = o2,
                               !.he_previous = he,
                               !.t1_battery = BitOr(@, battery_state(d, offset + 27 + pnf)),
                               !.t2_battery = BitOr(@, battery_state(d, offset + 19 + pnf)),
                               !.maxread = Max(@, offset + 28 + pnf)]
        ELSE IF type = LOG_RECORD_FREEDIVE_SAMPLE THEN
            [a EXCEPT !.mode = "FREEDIVE"]
        ELSE IF type >= LOG_RECORD_OPENING_0 /\ type <= LOG_RECORD_OPENING_7 THEN
            StoreOpening(a, type - LOG_RECORD_OPENING_0, offset)
        ELSE IF type >= LOG_RECORD_CLOSING_0 /\ type <= LOG_RECORD_CLOSING_7 THEN
            StoreClosing(a, type - LOG_RECORD_CLOSING_0, offset)
        ELSE IF type = LOG_RECORD_FINAL THEN
            [a EXCEPT !.final = offset]
        ELSE a

\* while (offset + parser->samplesize <= length) { ... } (lines 508-571);
\* array_isequal reads at most the samplesize bytes of the record
RECURSIVE CacheSweep(_, _, _, _, _, _)
CacheSweep(d, samplesize, pnf, length, offset, a) ==
    IF offset + samplesize > length THEN a
    ELSE LET seen == [a EXCEPT !.maxread = Max(@, offset + samplesize - 1)]
         IN  IF array_isequal(d, offset, samplesize, 0)
             THEN CacheSweep(d, samplesize, pnf, length, offset + samplesize, seen)
             ELSE LET b == CacheRecord(d, pnf, offset, seen)
                  IN  IF b.rc # "SUCCESS" THEN b
                      ELSE CacheSweep(d, samplesize, pnf, length, offset + samplesize, b)

\* the outcomes of add_string_fmt(parser, sensorname, "%d %s", parser->calibration[i], "mV")
\* (line 606): a double is passed where %d takes an int, so what is formatted
\* is not determined by the program: some text, or the process dies in vsnprintf
FormatOutcomes == {"text-a", "text-b", "fault"}

\* str->desc = sensorname keeps the address of a stack array of the loop body
DanglingDesc == "sensorname (dangling)"

\* lines 573-656, once the sweep has ended without an error
CachePublish(p, d, pnf, headersize, footersize, a, g) ==
    LET missing == {i \in 0..(NRECORDS - 3) :
                        a.opening[i + 1] = UNDEFINED \/ a.closing[i + 1] = UNDEFINED}
        swept == [p EXCEPT !.opening = a.opening, !.closing = a.closing, !.final = a.final]
    IN  IF missing # {}
        THEN [rc |-> "DATAFORMAT", p |-> swept, maxread |-> a.maxread,
              diag |-> "Opening or closing record not found."]
        ELSE
        LET opening == a.opening
            logversion == Byte(d, opening[5] + (IF pnf = 1 THEN 16 ELSE 127))
            s1 == add_string(p.strings, "Logversion", <<logversion, pnf>>)
            t1_battery == IF logversion < 7 THEN 0 ELSE a.t1_battery
            t2_battery == IF logversion < 7 THEN 0 ELSE a.t2_battery
            base == opening[4] + (IF pnf = 1 THEN 6 ELSE 86)
            raw == [i \in 1..3 |-> array_uint16_be(d, base + 1 + (i - 1) * 2)]
            calibration == [i \in 1..3 |-> [mv |-> raw[i], x22 |-> p.model = PREDATOR]]
            s2 == IF p.model = PREDATOR /\ g # "fault"
                  THEN add_string(add_string(add_string(s1, DanglingDesc, <<g, 0>>),
                                             DanglingDesc, <<g, 1>>), DanglingDesc, <<g, 2>>)
                  ELSE s1
            enabled == {i \in 1..3 : BitSet(Byte(d, base), 2 ^ (i - 1))}
            nsensors == Cardinality(enabled)
            ndefaults == Cardinality({i \in enabled : raw[i] = 2100})
            alldefault == nsensors # 0 /\ nsensors = ndefaults
            s3 == IF a.mode = "OC" THEN s2
                  ELSE add_string(s2, "PPO2 source",
                                  IF alldefault THEN "voted/averaged" ELSE "cells")
            s4 == add_string(s3, "Serial", <<p.serial>>)
            s5 == add_string(s4, "FW Version", <<Byte(d, 19)>>)
            s6 == add_deco_model(s5, d, pnf, opening)
            s7 == add_battery_type(s6, d, pnf, opening, logversion)
            s8 == add_string(s7, "Battery at end", <<Byte(d, 9)>>)
            s9 == add_battery_info(s8, "T1 battery", t1_battery)
            s10 == add_battery_info(s9, "T2 battery", t2_battery)
            \* the offsets lines 583-652 read (add_deco_model reads a part of its four)
            reads == {opening[5] + (IF pnf = 1 THEN 16 ELSE 127), base + 6,
                      opening[1] + 8,
                      opening[2] + (IF pnf = 1 THEN 16 ELSE 47) + 1,
                      opening[4] + (IF pnf = 1 THEN 3 ELSE 83) + 1,
                      19, 9, 5,
                      (IF pnf = 1 THEN opening[3] + 18 ELSE 67) + 1,
                      IF pnf = 1 THEN opening[4] + 5 ELSE 85,
                      IF logversion < 7 THEN 0
                      ELSE IF pnf = 1 THEN opening[5] + 9 ELSE 120}
            top == CHOOSE m \in reads \cup {a.maxread} :
                       \A r \in reads \cup {a.maxread} : r <= m
        IN  IF p.model = PREDATOR /\ g = "fault"
            THEN [rc |-> "FAULT", p |-> [swept EXCEPT !.strings = s1],
                  maxread |-> a.maxread, diag |-> ""]
            ELSE [rc |-> "SUCCESS",
                  p |-> [swept EXCEPT
                           !.calibration = calibration,
                           !.calibrated = Byte(d, base),
                           !.pnf = pnf,
                           !.logversion = logversion,
                           !.headersize = headersize,
                           !.footersize = footersize,
                           !.ngasmixes = a.ngasmixes,
                           !.oxygen = [i \in 1..NGASMIXES |->
                                          IF i <= a.ngasmixes THEN a.oxygen[i] ELSE @[i]],
                           !.helium = [i \in 1..NGASMIXES |->
                                          IF i <= a.ngasmixes THEN a.helium[i] ELSE @[i]],
                           !.mode = a.mode,
                           !.units = Byte(d, opening[1] + 8),
                           !.atmospheric =
                               array_uint16_be(d, opening[2] + (IF pnf = 1 THEN 16 ELSE 47)),
                           !.density =
                               array_uint16_be(d, opening[4] + (IF pnf = 1 THEN 3 ELSE 83)),
                           !.cached = 1,
                           !.strings = s10],
                  maxread |-> top,
                  diag |-> IF alldefault
                           THEN "Disabled all O2 sensors due to a default calibration value."
                           ELSE ""]

\* shearwater_predator_parser_cache.  g is the outcome of the formatting at
\* line 606.  The result holds the status, the parser object as the call
\* leaves it, the highest offset read and the message logged.
shearwater_predator_parser_cache(p, d, g) ==
    IF IsCached(p) THEN [rc |-> "SUCCESS", p |-> p, maxread |-> -1, diag |-> ""]
    ELSE
    LET size == Size(d)
        p0 == [p EXCEPT !.strings = ClearStrings(@)]
        short(q, mr) == [rc |-> "DATAFORMAT", p |-> q, maxread |-> mr,
                         diag |-> "Invalid data length."]
    IN  IF size < 2 THEN short(p0, -1)
        ELSE
        LET pnf == DetectPnf(p0, d)
            mr0 == IF p0.petrel = 1 THEN 1 ELSE -1
        IN  IF pnf = 0 /\ size < SZ_BLOCK + SZ_BLOCK THEN short(p0, mr0)
            ELSE
            LET final == pnf = 0 /\ HasFinalBlock(p0, d)
                mr1 == IF pnf = 0 /\ p0.petrel = 0 THEN Max(mr0, size - SZ_BLOCK + 1) ELSE mr0
                headersize == IF pnf = 0 THEN SZ_BLOCK ELSE 0
                footersize == IF pnf = 1 THEN 0
                              ELSE IF final THEN SZ_BLOCK + SZ_BLOCK ELSE SZ_BLOCK
            IN  IF final /\ size < headersize + footersize THEN short(p0, mr1)
                ELSE
                LET a0 == [mode |-> "OC", ngasmixes |-> 0,
                           oxygen |-> [i \in 1..NGASMIXES |-> 0],
                           helium |-> [i \in 1..NGASMIXES |-> 0],
                           o2_previous |-> 0, he_previous |-> 0,
                           t1_battery |-> 0, t2_battery |-> 0,
                           opening |-> IF pnf = 0 THEN [i \in 1..NRECORDS |-> 0]
                                       ELSE p0.opening,
                           closing |-> IF pnf = 0
                                       THEN [i \in 1..NRECORDS |-> size - footersize]
                                       ELSE p0.closing,
                           final |-> IF final THEN size - SZ_BLOCK ELSE p0.final,
                           maxread |-> mr1, rc |-> "SUCCESS", diag |-> ""]
                    a == CacheSweep(d, p0.samplesize, pnf, size - footersize, headersize, a0)
                IN  IF a.rc # "SUCCESS"
                    THEN [rc |-> a.rc,
                          p |-> [p0 EXCEPT !.opening = a.opening, !.closing = a.closing,
                                           !.final = a.final],
                          maxread |-> a.maxread, diag |-> a.diag]
                    ELSE CachePublish(p0, d, pnf, headersize, footersize, a, g)

---------------------------------------------------------------------------
(* shearwater_predator_parser_get_datetime and _get_field. *)

\* the result of an entry point: status, parser object, value stored through
\* the out-parameter, callback invocations, highest offset read, message,
\* and whether the caller passed a callback
Result(rcv, p, o, em, mr, dg) ==
    [rc |-> rcv, p |-> p, out |-> o, emitted |-> em, maxread |-> mr, diag |-> dg,
     callback |-> FALSE]

NoValue == <<>>

\* c is what the call of shearwater_predator_parser_cache at line 279 returned;
\* datetime = NULL makes dc_datetime_gmtime fail
shearwater_predator_parser_get_datetime(c, d, hasDatetime) ==
        IF c.rc # "SUCCESS" THEN Result(c.rc, c.p, NoValue, <<>>, c.maxread, c.diag)
        ELSE LET ticks == array_uint32_be(d, c.p.opening[1] + 12)
                 mr == Max(c.maxread, c.p.opening[1] + 15)
             IN  IF ~hasDatetime THEN Result("DATAFORMAT", c.p, NoValue, <<>>, mr, c.diag)
                 ELSE Result("SUCCESS", c.p, <<"datetime", ticks>>, <<>>, mr, c.diag)

FieldTypes == {"DIVETIME", "MAXDEPTH", "GASMIX_COUNT", "GASMIX", "SALINITY",
               "ATMOSPHERIC", "DIVEMODE", "STRING", "TANK_COUNT"}

\* the flags a caller passes with DC_FIELD_GASMIX and DC_FIELD_STRING
FieldFlags(type) ==
    CASE type = "GASMIX" -> {0, 1, NGASMIXES - 1}
      [] type = "STRING" -> {0, 3, MAXSTRINGS - 1, MAXSTRINGS}
      [] OTHER -> {0}

\* c is what the call of shearwater_predator_parser_cache at line 667 returned
shearwater_predator_parser_get_field(c, d, type, flags, hasValue) ==
    LET q == c.p
        ok(v, mr) == Result("SUCCESS", q, v, <<>>, Max(c.maxread, mr), c.diag)
    IN  IF c.rc # "SUCCESS" THEN Result(c.rc, q, NoValue, <<>>, c.maxread, c.diag)
        ELSE IF ~hasValue THEN ok(NoValue, -1)
        ELSE CASE type = "DIVETIME" ->
                    IF q.pnf # 0
                    THEN ok(<<"divetime", array_uint24_be(d, q.closing[1] + 6)>>,
                            q.closing[1] + 8)
                    ELSE ok(<<"divetime", array_uint16_be(d, q.closing[1] + 6) * 60>>,
                            q.closing[1] + 7)
               [] type = "MAXDEPTH" ->
                    \* raw value, times FEET when imperial, over 10 when PNF
                    ok(<<"maxdepth", array_uint16_be(d, q.closing[1] + 4),
                         q.units = IMPERIAL, q.pnf # 0>>, q.closing[1] + 5)
               [] type = "GASMIX_COUNT" -> ok(<<"gasmix_count", q.ngasmixes>>, -1)
               [] type = "GASMIX" ->
                    ok(<<"gasmix", q.oxygen[flags + 1], q.helium[flags + 1],
                         100 - q.oxygen[flags + 1] - q.helium[flags + 1]>>, -1)
               [] type = "SALINITY" ->
                    ok(<<"salinity", IF q.density = 1000 THEN "FRESH" ELSE "SALT",
                         q.density>>, -1)
               [] type = "ATMOSPHERIC" -> ok(<<"atmospheric", q.atmospheric>>, -1)
               [] type = "DIVEMODE" -> ok(<<"divemode", q.mode>>, -1)
               [] type = "STRING" ->
                    IF flags < MAXSTRINGS /\ flags < Len(q.strings)
                    THEN ok(<<"string", q.strings[flags + 1]>>, -1)
                    ELSE Result("UNSUPPORTED", q, NoValue, <<>>, c.maxread, c.diag)
               [] OTHER -> Result("UNSUPPORTED", q, NoValue, <<>>, c.maxread, c.diag)

---------------------------------------------------------------------------
(* shearwater_predator_parser_samples_foreach: the replay pass. *)

\* if (callback) callback (type, sample, userdata); at is the offset of the
\* record being decoded (kept for the properties, the callback does not see it)
Emit(callback, type, at, v) ==
    IF callback THEN <<[type |-> type, at |-> at, v |-> v]>> ELSE <<>>

\* if (interval % 1000 != 0) return DC_STATUS_DATAFORMAT;
AnyIntervalSupported(ms) == TRUE

SampleIntervalSupported(ms) == ms % 1000 = 0

\* the fold without the clamp of lines 827-829
FoldTemperatureUnclamped(byte) ==
    LET temperature == IF byte >= 128 THEN byte - 256 ELSE byte
    IN  IF temperature < 0 THEN temperature + 102 ELSE temperature

\* lines 823-830: the signed byte, negative values folded
FoldTemperature(byte) ==
    LET temperature == IF byte >= 128 THEN byte - 256 ELSE byte
    IN  IF temperature < 0
        THEN (IF temperature + 102 > 0 THEN 0 ELSE temperature + 102)
        ELSE temperature

\* the order of the callback invocations of one dive sample (lines 808-947)
EmitDecoBeforeGasmix(time, depth, temperature, ppo2, setpoint, cns, gasmix, deco, pressure, rbt) ==
    time \o depth \o temperature \o ppo2 \o setpoint \o cns \o deco \o gasmix \o pressure \o rbt

EmitOrder(time, depth, temperature, ppo2, setpoint, cns, gasmix, deco, pressure, rbt) ==
    time \o depth \o temperature \o ppo2 \o setpoint \o cns \o gasmix \o deco \o pressure \o rbt

\* a dive sample record (lines 808-947)
ReplayDive(q, d, callback, interval, offset, a) ==
    LET pnf == q.pnf
        at(f) == offset + pnf + f
        time == a.time + interval
        eTime == Emit(callback, "TIME", offset, time)
        eDepth == Emit(callback, "DEPTH", offset,
                       <<array_uint16_be(d, pnf + offset), q.units = IMPERIAL>>)
        eTemp == Emit(callback, "TEMPERATURE", offset,
                      <<FoldTemperature(Byte(d, at(13))), q.units = IMPERIAL>>)
        status == Byte(d, at(11))
        ccr == ~BitSet(status, OC)
        cell(i, f) == IF BitSet(q.calibrated, 2 ^ (i - 1))
                      THEN Emit(callback, "PPO2", offset, <<Byte(d, at(f)), q.calibration[i]>>)
                      ELSE <<>>
        ePpo2 == IF ~ccr \/ BitSet(status, PPO2_EXTERNAL) THEN <<>>
                 ELSE IF q.calibrated = 0
                 THEN Emit(callback, "PPO2", offset, <<Byte(d, at(6)), "external">>)
                 ELSE cell(1, 12) \o cell(2, 14) \o cell(3, 15)
        eSetpoint == IF ~ccr THEN <<>>
                     ELSE IF q.petrel # 0
                     THEN Emit(callback, "SETPOINT", offset, Byte(d, at(18)))
                     ELSE IF BitSet(status, SETPOINT_HIGH)
                     THEN Emit(callback, "SETPOINT", offset, Byte(d, 18))
                     ELSE Emit(callback, "SETPOINT", offset, Byte(d, 17))
        eCns == IF q.petrel # 0 THEN Emit(callback, "CNS", offset, Byte(d, at(22))) ELSE <<>>
        o2 == Byte(d, at(7))
        he == Byte(d, at(8))
        changed == o2 # a.o2_previous \/ he # a.he_previous
        idx == shearwater_predator_find_gasmix(q, o2, he)
        eGasmix == IF changed THEN Emit(callback, "GASMIX", offset, idx) ELSE <<>>
        decostop == array_uint16_be(d, at(2))
        eDeco == Emit(callback, "DECO", offset,
                      <<IF decostop # 0 THEN "DECOSTOP" ELSE "NDL", decostop,
                        q.units = IMPERIAL, Byte(d, at(9)) * 60>>)
        tank(id, f) == LET pressure == array_uint16_be(d, at(f))
                       IN  IF pressure < 65520
                           THEN Emit(callback, "PRESSURE", offset, <<id, pressure % 4096>>)
                           ELSE <<>>
        ePressure == IF q.logversion >= 7 THEN tank(0, 27) \o tank(1, 19) ELSE <<>>
        eRbt == IF q.logversion >= 7 /\ Byte(d, at(21)) < 240
                THEN Emit(callback, "RBT", offset, Byte(d, at(21)))
                ELSE <<>>
        \* the highest offset of the record read: the tank pressure of
        \* transmitter 1, else the CNS byte, else the third O2 cell
        top == IF q.logversion >= 7 THEN at(28)
               ELSE IF q.petrel # 0 THEN at(22) ELSE at(15)
    IN  IF changed /\ idx >= q.ngasmixes
        THEN [a EXCEPT !.time = time, !.rc = "DATAFORMAT", !.diag = "Invalid gas mix.",
                       !.maxread = Max(@, IF q.petrel # 0 THEN at(22) ELSE at(15)),
                       !.emitted = @ \o EmitOrder(eTime, eDepth, eTemp, ePpo2, eSetpoint,
                                                  eCns, <<>>, <<>>, <<>>, <<>>)]
        ELSE [a EXCEPT !.time = time,
                       !.o2_previous = IF changed THEN o2 ELSE @,
                       !.he_previous = IF changed THEN he ELSE @,
                       !.maxread = Max(@, top),
                       !.emitted = @ \o EmitOrder(eTime, eDepth, eTemp, ePpo2, eSetpoint,
                                                  eCns, eGasmix, eDeco, ePressure, eRbt)]

\* a freedive record: four packed sub-samples (lines 948-975)
RECURSIVE ReplayFreedive(_, _, _, _, _, _, _)
ReplayFreedive(q, d, callback, interval, offset, i, a) ==
    LET idx == offset + i * SZ_SAMPLE_FREEDIVE
    IN  IF i >= 4 THEN a
        ELSE IF array_isequal(d, idx, SZ_SAMPLE_FREEDIVE, 0) THEN a
        ELSE ReplayFreedive(q, d, callback, interval, offset, i + 1,
                 [a EXCEPT !.time = @ + interval,
                           !.emitted = @ \o Emit(callback, "TIME", offset, a.time + interval)
                                         \o Emit(callback, "DEPTH", offset,
                                                 <<array_uint16_be(d, idx + 1) - q.atmospheric,
                                                   q.density>>)
                                         \o Emit(callback, "TEMPERATURE", offset,
                                                 LET t == array_uint16_be(d, idx + 3)
                                                 IN  <<IF t >= 32768 THEN t - 65536 ELSE t>>)])

\* an info event record (lines 768-793)
ReplayEvent(q, d, callback, offset, a) ==
    IF Byte(d, offset + 1) # INFO_EVENT_TAG_LOG THEN a
    ELSE LET tag_time == Sub32(array_uint32_be(d, offset + 4),
                                array_uint32_be(d, q.opening[1] + 12))
             tag_heading == array_uint32_be(d, offset + 8)
             tag_type == array_uint32_be(d, offset + 12)
         IN  IF ULe(tag_heading, 360) /\ ULe(tag_type, 5)
             THEN [a EXCEPT !.emitted = @ \o Emit(callback, "EVENT", offset,
                                                  <<"BOOKMARK", tag_time, tag_type + 1, tag_heading>>)]
             ELSE a

\* if (pnf && data[offset] != LOG_RECORD_DIVE_SAMPLE) { offset += samplesize; continue; }
SkippedByReplay(type) == type # LOG_RECORD_DIVE_SAMPLE

\* while (offset + parser->samplesize <= length) { ... } (lines 761-978)
RECURSIVE ReplaySweep(_, _, _, _, _, _, _)
ReplaySweep(q, d, callback, interval, length, offset, a) ==
    IF offset + q.samplesize > length THEN a
    ELSE
    LET next == offset + q.samplesize
        seen == [a EXCEPT !.maxread = Max(@, next - 1)]
        pnf == q.pnf # 0
    IN  IF pnf /\ Byte(d, offset) = LOG_RECORD_FINAL /\ Byte(d, offset + 1) = 253
        THEN [a EXCEPT !.maxread = Max(@, offset + 1)]
        ELSE IF pnf /\ Byte(d, offset) = LOG_RECORD_INFO_EVENT
        THEN ReplaySweep(q, d, callback, interval, length, next,
                         ReplayEvent(q, d, callback, offset, seen))
        ELSE IF pnf /\ SkippedByReplay(Byte(d, offset))
        THEN ReplaySweep(q, d, callback, interval, length, next, seen)
        ELSE IF array_isequal(d, offset, q.samplesize, 0)
        THEN ReplaySweep(q, d, callback, interval, length, next, seen)
        ELSE
        LET type == IF pnf THEN Byte(d, offset) ELSE LOG_RECORD_DIVE_SAMPLE
        IN  IF type = LOG_RECORD_DIVE_SAMPLE
            THEN LET b == ReplayDive(q, d, callback, interval, offset, seen)
                 IN  IF b.rc # "SUCCESS" THEN b
                     ELSE ReplaySweep(q, d, callback, interval, length, next, b)
            ELSE IF type = LOG_RECORD_FREEDIVE_SAMPLE
            THEN ReplaySweep(q, d, callback, interval, length, next,
                             ReplayFreedive(q, d, callback, interval, offset, 0, seen))
            ELSE ReplaySweep(q, d, callback, interval, length, next, seen)

\* interval = array_uint16_be (data + parser->opening[5] + 23) when no opening
\* record of class 5 was seen: opening[5] is UNDEFINED and the address is
\* outside the buffer.  A 32-bit address wraps to data + 22; a 64-bit address
\* is 4 GiB past the buffer, where the read gives some value or a fault.
IntervalOutcomes == {<<"wrap", 0>>, <<"fault", 0>>, <<"value", 1500>>, <<"value", 2000>>}

\* the outcomes of the read of the sample interval after the cache pass c
IntervalChoices(c) ==
    IF c.rc = "SUCCESS" /\ c.p.pnf # 0 /\ c.p.logversion >= 9 /\ c.p.opening[6] = UNDEFINED
    THEN IntervalOutcomes
    ELSE {<<"defined", 0>>}

\* c is what the call of shearwater_predator_parser_cache at line 739 returned,
\* u the outcome of the read of the sample interval
shearwater_predator_parser_samples_foreach(c, d, callback, u) ==
    LET q == c.p
        Reply(rcv, em, mr, dg) == [Result(rcv, q, NoValue, em, mr, dg) EXCEPT !.callback = callback]
    IN  IF c.rc # "SUCCESS" THEN Reply(c.rc, <<>>, c.maxread, c.diag)
        ELSE
        LET stored == q.pnf # 0 /\ q.logversion >= 9
            undefined == stored /\ q.opening[6] = UNDEFINED
            where == IF ~undefined THEN q.opening[6] + 23
                     ELSE IF u[1] = "wrap" THEN UNDEFINED + 23
                     ELSE FarOffset - 1
            ms == IF undefined /\ u[1] # "wrap" THEN u[2] ELSE array_uint16_be(d, where)
            mr == IF stored THEN Max(c.maxread, where + 1) ELSE c.maxread
        IN  IF undefined /\ u[1] = "fault"
            THEN Reply("FAULT", <<>>, mr, c.diag)
            ELSE IF stored /\ ~SampleIntervalSupported(ms)
            THEN Reply("DATAFORMAT", <<>>, mr, "Unsupported sample interval.")
            ELSE
            LET interval == IF stored THEN ms \div 1000 ELSE 10
                a0 == [time |-> 0, o2_previous |-> 0, he_previous |-> 0, emitted |-> <<>>,
                       maxread |-> mr, rc |-> "SUCCESS", diag |-> c.diag]
                a == ReplaySweep(q, d, callback, interval, Size(d) - q.footersize,
                                 q.headersize, a0)
            IN  Reply(a.rc, a.emitted, a.maxread, a.diag)

---------------------------------------------------------------------------
(* The buffers of the model. *)

StdCal == <<2100, 2000, 1900>>
StdHeader == Header(9, 2000, METRIC, 7, StdCal, 0)

\* the standard header with one setting changed
Headers ==
    {StdHeader}
    \cup {Header(lv, 2000, METRIC, 7, StdCal, 0) : lv \in {6, 7}}
    \cup {Header(9, ival, METRIC, 7, StdCal, 0) : ival \in {0, 1000, 1500}}
    \cup {Header(9, 2000, IMPERIAL, 7, StdCal, 0)}
    \cup {Header(9, 2000, METRIC, en, StdCal, 0) : en \in {0, 6}}
    \cup {Header(9, 2000, METRIC, en, <<2100, 2100, 2100>>, 0) : en \in {5, 7}}
    \cup {Header(9, 2000, METRIC, 7, StdCal, deco) : deco \in {1, 2, 3}}

\* open circuit on air, transmitters off
SampleOC == Dive(21, 0, OC, 20, 65535, 65535)
\* closed circuit on trimix, -1 degrees, T1 normal at 200 psi, T2 warning
SampleCCR == Dive(10, 50, 0, 255, 100, 8208)
\* closed circuit, external ppO2, high setpoint, T1 critical
SampleCCRExternal == Dive(21, 0, PPO2_EXTERNAL + SETPOINT_HIGH, 20, 4196, 65535)
\* a sample that names no gas
SampleNoGas == Dive(0, 0, OC, 20, 65535, 65535)

PnfAlphabet == {SampleCCR, Freedive(2), FinalRec}
LegacyAlphabet == {SampleOC, SampleCCR, ZeroRec}

OpeningRecs(classes) == [i \in 1..Len(classes) |-> Opening(classes[i])]
ClosingRecs(classes) == [i \in 1..Len(classes) |-> Closing(classes[i])]

\* opening records, the sample stream, closing records, the final record
PnfLog(h, opens, body, closes) ==
    PnfBuffer(h, OpeningRecs(opens) \o body \o ClosingRecs(closes) \o <<FinalRec>>)

AllClasses == <<0, 1, 2, 3, 4, 5>>
Required == <<0, 1, 2, 3, 4>>
Without(classes, c) == SelectSeq(classes, LAMBDA x : x # c)

\* n dive samples that each switch to a gas mix not seen before, after an
\* optional sample naming no gas, and optionally back to the first mix
GasRamp(n, lead, back) ==
    (IF lead THEN <<SampleNoGas>> ELSE <<>>)
    \o [i \in 1..n |-> Dive(20 + i, 0, OC, 20, 65535, 65535)]
    \o (IF back THEN <<Dive(21, 0, OC, 20, 65535, 65535)>> ELSE <<>>)

MixedBody == <<SampleCCR, ZeroRec, SampleOC, TagEvent, SampleCCRExternal, SampleNoGas>>

\* transmitter words: normal, critical and warning at 200 psi, the unused
\* state 3, no communication for 30 s, not paired
TankWords == <<100, 4196, 8292, 12388, 65534, 65535>>

\* the words transmitter 1 and transmitter 2 report over three dive samples
BatteryRuns ==
    {<<1, 1, 1>>, <<1, 3, 1>>, <<2, 1, 6>>, <<3, 2, 5>>, <<1, 2, 3>>, <<4, 5, 6>>}

\* three open circuit samples on air with the given transmitter words
BatteryBody(t1, t2) ==
    [i \in 1..3 |-> Dive(21, 0, OC, 20, TankWords[t1[i]], TankWords[t2[i]])]

\* buffers too short for any layout, or filled with one value
FillBuffers ==
    {FillBuffer(n, 0) : n \in {1, 2, 96}} \cup {FillBuffer(n, 255) : n \in {2, 200, 300}}

\* logs in the Petrel Native Format
PnfBuffers ==
    \* every short sample stream
    {PnfLog(StdHeader, AllClasses, body, Required) : body \in SeqsUpTo(PnfAlphabet, MaxBody)}
    \* every header, and the opening record of class 5 left out
    \cup {PnfLog(h, AllClasses, MixedBody, Required) : h \in Headers}
    \cup {PnfLog(Header(9, ival, METRIC, 7, StdCal, 0), Required, MixedBody, Required) :
            ival \in {1500, 2000}}
    \* one required record missing
    \cup {PnfLog(StdHeader, Without(AllClasses, c), <<SampleOC>>, Required) : c \in 0..4}
    \cup {PnfLog(StdHeader, AllClasses, <<SampleOC>>, Without(Required, c)) : c \in 0..4}
    \* gas mix ramps around the capacity of the table
    \cup {PnfLog(StdHeader, AllClasses, GasRamp(n, lead, back), Required) :
            n \in NGASMIXES..MaxRamp, lead \in BOOLEAN, back \in BOOLEAN}
    \* a second opening record of class 4 and a second closing record of class 0
    \cup {PnfLog(StdHeader, <<0, 1, 2, 3, 4, 5, 4>>, <<SampleOC>>, <<0, 1, 2, 3, 4, 0>>)}
    \* the transmitter battery states, with and without battery reporting
    \cup {PnfLog(StdHeader, AllClasses, BatteryBody(t, t), Required) : t \in BatteryRuns}
    \cup {PnfLog(StdHeader, AllClasses, BatteryBody(<<1, 2, 3>>, <<4, 5, 6>>), Required),
          PnfLog(Header(6, 2000, METRIC, 7, StdCal, 0), AllClasses,
                 BatteryBody(<<1, 2, 3>>, <<2, 1, 6>>), Required)}

\* legacy logs, with 16 byte (Predator) or 32 byte (Petrel) samples
LegacyBuffers(ssz) ==
    {LegacyBuffer(ssz, StdHeader, body, fin) :
        body \in SeqsUpTo(LegacyAlphabet, MaxBody - 1),
        fin \in IF ssz = SZ_SAMPLE_PETREL THEN {TRUE} ELSE BOOLEAN}
    \cup {LegacyBuffer(ssz, h, <<SampleCCR, ZeroRec, SampleOC, SampleCCRExternal, SampleNoGas>>,
                       TRUE) : h \in Headers}
    \cup {LegacyBuffer(ssz, StdHeader, GasRamp(n, TRUE, FALSE), FALSE) :
            n \in NGASMIXES..MaxRamp}

\* the buffers a Petrel parser is handed: the logs of its device family, one
\* log of the other family, and the buffers that are no log at all
PetrelBuffers ==
    PnfBuffers \cup LegacyBuffers(SZ_SAMPLE_PETREL) \cup FillBuffers
    \cup {LegacyBuffer(SZ_SAMPLE_PREDATOR, StdHeader, <<SampleOC>>, FALSE)}

\* the same for a Predator parser
PredatorBuffers ==
    LegacyBuffers(SZ_SAMPLE_PREDATOR) \cup FillBuffers
    \cup {PnfLog(StdHeader, AllClasses, <<SampleOC>>, Required)}

Buffers(petrel) == IF petrel = 1 THEN PetrelBuffers ELSE PredatorBuffers

\* the parser before the first set_data: data = NULL, size = 0
NoData == FillBuffer(0, 0)

---------------------------------------------------------------------------
(* The state machine: the parser object and the calls of its owner. *)

Serial == 305419896

\* the derived layout state of the parser object
Derived(p) ==
    [pnf |-> p.pnf, logversion |-> p.logversion, headersize |-> p.headersize,
     footersize |-> p.footersize, opening |-> p.opening, closing |-> p.closing,
     final |-> p.final, ngasmixes |-> p.ngasmixes, oxygen |-> p.oxygen,
     helium |-> p.helium, calibrated |-> p.calibrated, calibration |-> p.calibration,
     mode |-> p.mode, units |-> p.units, atmospheric |-> p.atmospheric,
     density |-> p.density, strings |-> p.strings]

Init ==
    /\ parser \in {shearwater_common_parser_create(PREDATOR, Serial, 0),
                   shearwater_common_parser_create(PETREL, Serial, 1)}
    /\ data = NoData
    /\ op = "create"
    /\ rc = "SUCCESS"
    /\ out = NoValue
    /\ emitted = <<>>
    /\ maxread = -1
    /\ diag = ""
    /\ hasCallback = FALSE
    /\ snap = <<>>
    /\ replaced = FALSE

\* the outcomes of line 606 that a call can meet
FormatChoices(p) ==
    IF p.model = PREDATOR /\ p.cached = 0 THEN FormatOutcomes ELSE {"text-a"}

\* the state after an entry point returned r
Returned(r, name) ==
    /\ parser' = r.p
    /\ rc' = r.rc
    /\ out' = r.out
    /\ emitted' = r.emitted
    /\ maxread' = r.maxread
    /\ diag' = r.diag
    /\ hasCallback' = r.callback
    /\ op' = name
    /\ data' = data
    /\ replaced' = replaced
    /\ snap' = IF snap = <<>> /\ parser.cached = 0 /\ r.p.cached = 1
               THEN <<Derived(r.p)>>
               ELSE snap

\* dc_parser_set_data: binds the buffer, then shearwater_predator_parser_set_data
SetData ==
    /\ rc # "FAULT"
    /\ \E b \in Buffers(parser.petrel) :
        /\ data' = b
        /\ snap' = IF b = data THEN snap ELSE <<>>
        /\ replaced' = (parser.cached = 1 /\ b # data)
    /\ parser' = ResetCache(parser)
    /\ op' = "set_data"
    /\ rc' = "SUCCESS"
    /\ out' = NoValue
    /\ emitted' = <<>>
    /\ maxread' = -1
    /\ diag' = ""
    /\ hasCallback' = FALSE

\* what a call of get_datetime can return: one result per outcome of the
\* cache pass and per argument
GetDatetimeReturns(p, d) ==
    UNION {LET c == shearwater_predator_parser_cache(p, d, g)
           IN  {shearwater_predator_parser_get_datetime(c, d, hasDatetime) :
                    hasDatetime \in BOOLEAN} : g \in FormatChoices(p)}

GetDatetime ==
    /\ rc # "FAULT"
    /\ \E r \in GetDatetimeReturns(parser, data) : Returned(r, "get_datetime")

GetFieldReturns(p, d) ==
    UNION {LET c == shearwater_predator_parser_cache(p, d, g)
           IN  UNION {{shearwater_predator_parser_get_field(c, d, type, flags, hasValue) :
                          flags \in FieldFlags(type), hasValue \in BOOLEAN} :
                      type \in FieldTypes} : g \in FormatChoices(p)}

GetField ==
    /\ rc # "FAULT"
    /\ \E r \in GetFieldReturns(parser, data) : Returned(r, "get_field")

SamplesForeachReturns(p, d) ==
    UNION {LET c == shearwater_predator_parser_cache(p, d, g)
           IN  {shearwater_predator_parser_samples_foreach(c, d, callback, u) :
                    callback \in BOOLEAN, u \in IntervalChoices(c)} : g \in FormatChoices(p)}

SamplesForeach ==
    /\ rc # "FAULT"
    /\ \E r \in SamplesForeachReturns(parser, data) : Returned(r, "samples_foreach")

Next == SetData \/ GetDatetime \/ GetField \/ SamplesForeach

Spec == Init /\ [][Next]_vars

---------------------------------------------------------------------------
(* The temperature fold over every value of the byte: one log per value    *)
(* of data[offset + pnf + 13] and per unit system, replayed.               *)

\* the values of an unsigned char
ByteMax == 255

\* one open circuit dive sample with the temperature byte t
TemperatureHeader(units) == Header(9, 2000, units, 7, StdCal, 0)
TemperatureSample(t) == Dive(21, 0, OC, t, 65535, 65535)

PetrelTemperatureLogs ==
    {PnfLog(TemperatureHeader(units), AllClasses, <<TemperatureSample(t)>>, Required) :
        t \in 0..ByteMax, units \in {METRIC, IMPERIAL}}

PredatorTemperatureLogs ==
    {LegacyBuffer(SZ_SAMPLE_PREDATOR, TemperatureHeader(units), <<TemperatureSample(t)>>, FALSE) :
        t \in 0..ByteMax, units \in {METRIC, IMPERIAL}}

\* the parser after construction and set_data with one of the logs
TemperatureInit ==
    /\ parser \in {shearwater_common_parser_create(PREDATOR, Serial, 0),
                   shearwater_common_parser_create(PETREL, Serial, 1)}
    /\ data \in (IF parser.petrel = 1 THEN PetrelTemperatureLogs ELSE PredatorTemperatureLogs)
    /\ op = "set_data"
    /\ rc = "SUCCESS"
    /\ out = NoValue
    /\ emitted = <<>>
    /\ maxread = -1
    /\ diag = ""
    /\ hasCallback = FALSE
    /\ snap = <<>>
    /\ replaced = FALSE

TemperatureNext == SamplesForeach

TemperatureSpec == TemperatureInit /\ [][TemperatureNext]_vars

---------------------------------------------------------------------------
(* What the buffer holds, read off its bytes without the parser's tables.  *)

Queries == {"get_datetime", "get_field", "samples_foreach"}

\* the fields of the struct under "Cached fields" but the flag itself
CachedFields(p) ==
    [pnf |-> p.pnf, logversion |-> p.logversion, headersize |-> p.headersize,
     footersize |-> p.footersize, opening |-> p.opening, closing |-> p.closing,
     final |-> p.final, ngasmixes |-> p.ngasmixes, oxygen |-> p.oxygen,
     helium |-> p.helium, calibrated |-> p.calibrated, calibration |-> p.calibration,
     mode |-> p.mode, units |-> p.units, atmospheric |-> p.atmospheric,
     density |-> p.density]

\* the buffer is long enough for the sweep of the cache pass to start
SweepRuns(p, d) ==
    /\ Size(d) >= 2
    /\ \/ DetectPnf(p, d) = 1
       \/ /\ Size(d) >= SZ_BLOCK + SZ_BLOCK
          /\ HasFinalBlock(p, d) => Size(d) >= SZ_BLOCK + SZ_BLOCK + SZ_BLOCK

\* the offsets of the records of the sample stream
RecordOffsets(p, d) ==
    LET pnf == DetectPnf(p, d)
        first == IF pnf = 1 THEN 0 ELSE SZ_BLOCK
        last == IF pnf = 1 THEN Size(d)
                ELSE IF HasFinalBlock(p, d) THEN Size(d) - SZ_BLOCK - SZ_BLOCK
                ELSE Size(d) - SZ_BLOCK
    IN  {first + k * p.samplesize : k \in 0..((last - first) \div p.samplesize - 1)}

\* the records that are not padding
LiveOffsets(p, d) ==
    {o \in RecordOffsets(p, d) : \E i \in 0..(p.samplesize - 1) : Byte(d, o + i) # 0}

\* the dive-sample records: every live record of a legacy buffer, the
\* records of type 0x01 of a PNF buffer
DiveOffsets(p, d) ==
    {o \in LiveOffsets(p, d) : DetectPnf(p, d) = 1 => Byte(d, o) = LOG_RECORD_DIVE_SAMPLE}

\* the freedive-sample records (type 0x02, PNF only)
FreediveOffsets(p, d) ==
    {o \in LiveOffsets(p, d) : DetectPnf(p, d) = 1 /\ Byte(d, o) = LOG_RECORD_FREEDIVE_SAMPLE}

\* where the replay stops: the first record that starts with 0xFF 0xFD
ReplayEnd(p, d) ==
    LET marks == {o \in RecordOffsets(p, d) :
                      DetectPnf(p, d) = 1 /\ Byte(d, o) = LOG_RECORD_FINAL /\ Byte(d, o + 1) = 253}
    IN  IF marks = {} THEN Size(d) ELSE CHOOSE o \in marks : \A x \in marks : o <= x

\* the (O2, He) pair a dive sample carries
PairAt(p, d, o) == <<Byte(d, o + 7 + DetectPnf(p, d)), Byte(d, o + 8 + DetectPnf(p, d))>>

\* the dive samples whose pair differs from the pair of the dive sample
\* before them, (0, 0) standing before the first
ChangeOffsets(p, d) ==
    LET dives == DiveOffsets(p, d)
        before(o) == LET earlier == {x \in dives : x < o}
                     IN  IF earlier = {} THEN <<0, 0>>
                         ELSE PairAt(p, d, CHOOSE x \in earlier : \A y \in earlier : y <= x)
    IN  {o \in dives : PairAt(p, d, o) # before(o)}

\* the changes to a pair that no earlier change went to
FirstSeenOffsets(p, d) ==
    LET changes == ChangeOffsets(p, d)
    IN  {o \in changes : \A x \in changes : x < o => PairAt(p, d, x) # PairAt(p, d, o)}

\* the number of callback invocations of one kind made for the record at o
Count(seq, o, type) ==
    Cardinality({i \in 1..Len(seq) : seq[i].at = o /\ seq[i].type = type})

---------------------------------------------------------------------------
(* The properties. *)

\* C1: once the cache pass has succeeded on a buffer, the derived layout
\* state (every cached field and the strings) stays what the first successful
\* pass left, through further queries and through a second pass on the same
\* bytes.  The Predator strings formatted at line 606 are not determined by
\* the buffer, so a second pass can leave other strings.
C1_FrozenLayout ==
    (parser.cached = 1 /\ snap # <<>>) => Derived(parser) = snap[1]

\* C2: set_data leaves cached = 0 and every cached field at its default;
\* a layout cached afterwards is the layout the pass computes from the bound
\* bytes on a newly created parser, and a string that get_field hands out is
\* a string of that layout.
C2_ResetOnSetData ==
    LET new == shearwater_common_parser_create(parser.model, parser.serial, parser.petrel)
        fresh == {shearwater_predator_parser_cache(new, data, g) : g \in FormatOutcomes}
    IN  /\ op = "set_data" => parser.cached = 0 /\ CachedFields(parser) = CachedFields(new)
        /\ parser.cached = 1 =>
              \E c \in fresh : c.rc = "SUCCESS" /\ Derived(c.p) = Derived(parser)
        /\ (op = "get_field" /\ rc = "SUCCESS" /\ out # NoValue /\ out[1] = "string") =>
              \E c \in fresh : /\ c.rc = "SUCCESS"
                               /\ \E i \in 1..Len(c.p.strings) : c.p.strings[i] = out[2]

\* C2 happens: a query has cached the layout of a buffer that replaced a
\* buffer with a cached layout, and the new buffer has no opening record 5
C2_Recomputed ==
    /\ replaced
    /\ op \in {"get_field", "samples_foreach"}
    /\ rc = "SUCCESS"
    /\ parser.cached = 1
    /\ parser.pnf = 1
    /\ parser.opening[6] = UNDEFINED

\* C3: a cache pass that fails leaves cached = 0 and every cached field as
\* it was before the call.  The sweep stores opening[], closing[] and final
\* in the parser object as it goes, so a failing pass leaves them changed.
C3_NothingPublished ==
    [][(op' \in Queries /\ rc' \in {"DATAFORMAT", "NOMEMORY"} /\ parser'.cached = 0)
          => (parser.cached = 0 /\ CachedFields(parser') = CachedFields(parser))]_vars

\* C4: after a successful cache pass the table holds the pairs in the order
\* the buffer first changes to them, the replay reports every change of the
\* records it reaches with the index of the pair in that table, below
\* ngasmixes, and never fails with "Invalid gas mix."
C4_IndexStability ==
    (op = "samples_foreach" /\ parser.cached = 1 /\ rc # "FAULT") =>
        LET firsts == FirstSeenOffsets(parser, data)
            Rank(o) == Cardinality({x \in firsts : x < o})
            reached == {o \in ChangeOffsets(parser, data) : o < ReplayEnd(parser, data)}
        IN  /\ diag # "Invalid gas mix."
            /\ parser.ngasmixes = Cardinality(firsts)
            /\ \A o \in firsts :
                  <<parser.oxygen[Rank(o) + 1], parser.helium[Rank(o) + 1]>>
                      = PairAt(parser, data, o)
            /\ \A i \in 1..Len(emitted) :
                  emitted[i].type = "GASMIX" =>
                      /\ emitted[i].v < parser.ngasmixes
                      /\ <<parser.oxygen[emitted[i].v + 1], parser.helium[emitted[i].v + 1]>>
                            = PairAt(parser, data, emitted[i].at)
                      /\ \E o \in firsts :
                            /\ PairAt(parser, data, o) = PairAt(parser, data, emitted[i].at)
                            /\ emitted[i].v = Rank(o)
            /\ (hasCallback /\ rc = "SUCCESS") =>
                  {emitted[i].at : i \in {j \in 1..Len(emitted) : emitted[j].type = "GASMIX"}}
                      = reached

\* C4 happens: a replay that reports the last of ten mixes and later a
\* change back to the first
C4_SwitchBack ==
    /\ op = "samples_foreach"
    /\ rc = "SUCCESS"
    /\ parser.ngasmixes = NGASMIXES
    /\ \E i, j \in 1..Len(emitted) :
          /\ i < j
          /\ emitted[i].type = "GASMIX" /\ emitted[i].v = NGASMIXES - 1
          /\ emitted[j].type = "GASMIX" /\ emitted[j].v = 0

\* C5 as stated: ngasmixes <= 10, the registered pairs are distinct, and a
\* buffer whose dive samples carry more than ten distinct pairs fails with
\* the resource error.  A (0, 0) pair at the head of the samples is never
\* registered, so eleven distinct pairs can be accepted.
C5_EleventhDistinctPair ==
    /\ parser.ngasmixes <= NGASMIXES
    /\ \A i, j \in 1..parser.ngasmixes :
          i # j => <<parser.oxygen[i], parser.helium[i]>> # <<parser.oxygen[j], parser.helium[j]>>
    /\ (op \in Queries /\ SweepRuns(parser, data)) =>
          (Cardinality({PairAt(parser, data, o) : o \in DiveOffsets(parser, data)}) > NGASMIXES
              => rc = "NOMEMORY")

\* C5 amended: ngasmixes <= 10, the registered pairs are distinct, and the
\* cache pass fails with DC_STATUS_NOMEMORY, leaving cached = 0, exactly when
\* the dive samples change to more than ten distinct pairs, the pair before
\* the first dive sample being (0, 0).
C5_EleventhRegisteredPair ==
    /\ parser.ngasmixes <= NGASMIXES
    /\ \A i, j \in 1..parser.ngasmixes :
          i # j => <<parser.oxygen[i], parser.helium[i]>> # <<parser.oxygen[j], parser.helium[j]>>
    /\ (op \in Queries /\ SweepRuns(parser, data)) =>
          /\ Cardinality(FirstSeenOffsets(parser, data)) > NGASMIXES <=> rc = "NOMEMORY"
          /\ rc = "NOMEMORY" => parser.cached = 0 /\ parser.ngasmixes = 0

\* C5 happens: a query failed on a buffer that changes to an eleventh pair
C5_TableOverflow ==
    /\ op = "get_field"
    /\ rc = "NOMEMORY"
    /\ Cardinality(FirstSeenOffsets(parser, data)) = NGASMIXES + 1

\* C6: every read of the buffer is at an offset below its size.  The replay
\* reads the sample interval at opening[5] + 23 without a test of opening[5],
\* which the cache pass does not require: with no opening record 5 the read
\* is 4 GiB behind the buffer.
C6_ReadsInsideBuffer ==
    maxread < Size(data)

\* the place of a callback kind in the order of one sample tick
KindOrder(type) ==
    CASE type = "TIME" -> 1
      [] type = "DEPTH" -> 2
      [] type = "TEMPERATURE" -> 3
      [] type = "PPO2" -> 4
      [] type = "SETPOINT" -> 5
      [] type = "CNS" -> 6
      [] type = "GASMIX" -> 7
      [] type = "DECO" -> 8
      [] type = "PRESSURE" -> 9
      [] type = "RBT" -> 10
      [] OTHER -> 0

\* C7: a replay with a callback reports the dive samples it reaches one
\* after the other, each as time, depth, temperature, ppO2 (0 to 3), setpoint,
\* CNS, gas mix (0 or 1), deco, tank pressure (0 to 2), remaining bottom time
\* (0 or 1), with time, depth, temperature and deco exactly once.
C7_EmissionOrder ==
    (op = "samples_foreach" /\ hasCallback /\ rc = "SUCCESS") =>
        LET reached == {o \in DiveOffsets(parser, data) : o < ReplayEnd(parser, data)}
            ticks == SelectSeq(emitted, LAMBDA e : e.type # "EVENT")
        IN  /\ {ticks[i].at : i \in 1..Len(ticks)} = reached
            /\ \A i \in 1..(Len(ticks) - 1) :
                  /\ ticks[i].at <= ticks[i + 1].at
                  /\ ticks[i].at = ticks[i + 1].at =>
                        KindOrder(ticks[i].type) <= KindOrder(ticks[i + 1].type)
            /\ \A i \in 1..(Len(emitted) - 1) : emitted[i].at <= emitted[i + 1].at
            /\ \A o \in reached :
                  /\ Count(emitted, o, "TIME") = 1
                  /\ Count(emitted, o, "DEPTH") = 1
                  /\ Count(emitted, o, "TEMPERATURE") = 1
                  /\ Count(emitted, o, "DECO") = 1
                  /\ Count(emitted, o, "PPO2") <= 3
                  /\ Count(emitted, o, "SETPOINT") <= 1
                  /\ Count(emitted, o, "CNS") <= 1
                  /\ Count(emitted, o, "GASMIX") <= 1
                  /\ Count(emitted, o, "PRESSURE") <= 2
                  /\ Count(emitted, o, "RBT") <= 1
                  /\ Count(emitted, o, "EVENT") = 0

\* C7 happens: one dive sample reported with every kind, three ppO2 values
\* and two tank pressures
C7_FullTick ==
    /\ op = "samples_foreach"
    /\ rc = "SUCCESS"
    /\ \E o \in DiveOffsets(parser, data) :
          /\ Count(emitted, o, "PPO2") = 3
          /\ Count(emitted, o, "SETPOINT") = 1
          /\ Count(emitted, o, "CNS") = 1
          /\ Count(emitted, o, "GASMIX") = 1
          /\ Count(emitted, o, "DECO") = 1
          /\ Count(emitted, o, "PRESSURE") = 2
          /\ Count(emitted, o, "RBT") = 1

\* the 16-bit big-endian value at opening[5] + 23; without an opening record
\* of class 5 whatever the read outside the buffer gives
IntervalValues(p, d) ==
    IF p.opening[6] # UNDEFINED
    THEN {Byte(d, p.opening[6] + 23) * 256 + Byte(d, p.opening[6] + 24)}
    ELSE {Byte(d, 22) * 256 + Byte(d, 23)}
         \cup {u[2] : u \in {v \in IntervalOutcomes : v[1] = "value"}}

\* C8: the n-th sample time is 10 n unless the layout is PNF with a log
\* version of 9 or more; there the replay reads the milliseconds at
\* opening[5] + 23, fails with a data-format error and no callback invocation
\* when they are no multiple of 1000, and else reports the n-th time as
\* n * milliseconds / 1000.
C8_SampleInterval ==
    (op = "samples_foreach" /\ parser.cached = 1 /\ rc # "FAULT") =>
        LET times == SelectSeq(emitted, LAMBDA e : e.type = "TIME")
            Steps(k) == \A n \in 1..Len(times) : times[n].v = n * k
        IN  IF ~(parser.pnf # 0 /\ parser.logversion >= 9)
            THEN rc = "SUCCESS" /\ Steps(10)
            ELSE \E ms \in IntervalValues(parser, data) :
                    IF ms % 1000 # 0
                    THEN rc = "DATAFORMAT" /\ emitted = <<>>
                         /\ diag = "Unsupported sample interval."
                    ELSE rc = "SUCCESS" /\ Steps(ms \div 1000)

\* C8 happens: the opening record 5 of the bound buffer holds 1500 ms and
\* the replay has failed on it
C8_Rejected1500 ==
    /\ op = "samples_foreach"
    /\ parser.cached = 1
    /\ parser.pnf # 0 /\ parser.logversion >= 9
    /\ parser.opening[6] # UNDEFINED
    /\ IntervalValues(parser, data) = {1500}
    /\ rc = "DATAFORMAT"

\* the sub-records of the freedive record at o before its first all-zero one
LiveSubsamples(d, o) ==
    LET zero == {i \in 0..3 : array_isequal(d, o + i * SZ_SAMPLE_FREEDIVE, SZ_SAMPLE_FREEDIVE, 0)}
    IN  IF zero = {} THEN 4 ELSE CHOOSE i \in zero : \A j \in zero : i <= j

\* C9: a replay with a callback reports, for every freedive record it
\* reaches, one time, depth and temperature per sub-record before the first
\* all-zero sub-record.  The replay skips every PNF record that is no dive
\* sample before it looks at the record type, so it reports none.
C9_FreediveTriples ==
    (op = "samples_foreach" /\ hasCallback /\ rc = "SUCCESS") =>
        \A o \in FreediveOffsets(parser, data) :
            o < ReplayEnd(parser, data) =>
                /\ Count(emitted, o, "TIME") = LiveSubsamples(data, o)
                /\ Count(emitted, o, "DEPTH") = LiveSubsamples(data, o)
                /\ Count(emitted, o, "TEMPERATURE") = LiveSubsamples(data, o)

\* C10: the cached dive mode is freedive when the buffer holds a freedive
\* record, else closed circuit when a dive sample has the OC bit clear, else
\* open circuit.  The sweep overwrites the mode at every record, so a dive
\* sample with the OC bit clear after a freedive record leaves closed circuit.
C10_FreediveOverrides ==
    parser.cached = 1 =>
        LET s == DetectPnf(parser, data)
        IN  parser.mode =
                IF FreediveOffsets(parser, data) # {} THEN "FREEDIVE"
                ELSE IF \E o \in DiveOffsets(parser, data) : ~BitSet(Byte(data, o + 11 + s), OC)
                THEN "CCR"
                ELSE "OC"

\* the O2 sensor slots the settings record at opening[3] enables, and whether
\* every one of them holds the factory default calibration (lines 594-615)
EnabledSlots(p, d) ==
    LET base == p.opening[4] + (IF p.pnf # 0 THEN 6 ELSE 86)
    IN  {i \in 0..2 : BitSet(Byte(d, base), 2 ^ i)}

AllEnabledDefault(p, d) ==
    LET base == p.opening[4] + (IF p.pnf # 0 THEN 6 ELSE 86)
    IN  /\ EnabledSlots(p, d) # {}
        /\ \A i \in EnabledSlots(p, d) : array_uint16_be(d, base + 1 + i * 2) = 2100

\* C11: when a slot is enabled and every enabled slot holds the default 2100,
\* the calibration mask is 0 and a replay reports one ppO2 value per closed
\* circuit sample with internal ppO2 (the averaged one, none per cell); else
\* the mask is the enable byte.  Line 622 stores the enable byte in the first
\* case too, so the cells of an uncalibrated buffer are reported.
C11_DefaultCalibrationDisables ==
    parser.cached = 1 =>
        LET s == DetectPnf(parser, data)
            base == parser.opening[4] + (IF s = 1 THEN 6 ELSE 86)
        IN  IF AllEnabledDefault(parser, data)
            THEN /\ parser.calibrated = 0
                 /\ (op = "samples_foreach" /\ hasCallback /\ rc = "SUCCESS") =>
                        \A o \in DiveOffsets(parser, data) :
                            Count(emitted, o, "PPO2") <= 1
            ELSE parser.calibrated = Byte(data, base)

\* the states a transmitter reports over the dive samples of the buffer, as
\* the bitmask of lines 554-555 and 587-590; f is 27 for T1 and 19 for T2
TransmitterMask(p, d, f) ==
    LET states == {battery_state(d, o + f + DetectPnf(p, d)) : o \in DiveOffsets(p, d)}
        bit(k) == IF k \in states THEN k ELSE 0
    IN  IF p.logversion < 7 THEN 0 ELSE bit(1) + bit(2) + bit(4)

\* the values of the strings published under one description
Published(p, desc) ==
    LET at == {i \in 1..Len(p.strings) : p.strings[i].desc = desc}
    IN  [n |-> Cardinality(at), values |-> {p.strings[i].value : i \in at}]

\* the most serious state of a bitmask that is not 0
MostSerious(mask) ==
    IF BitSet(mask, 2) THEN "critical"
    ELSE IF BitSet(mask, 4) THEN "warning"
    ELSE "normal"

Transmitters == {<<"T1 battery", 27>>, <<"T2 battery", 19>>}

\* C12 as stated: a successful pass publishes one entry per transmitter, the
\* empty string for the bitmask 0 and the most serious state otherwise.
\* add_battery_info adds no entry for the bitmask 0.
C12_EntryPerTransmitter ==
    parser.cached = 1 =>
        \A tx \in Transmitters :
            LET mask == TransmitterMask(parser, data, tx[2])
                entry == Published(parser, tx[1])
            IN  /\ entry.n = 1
                /\ entry.values = {IF mask = 0 THEN "" ELSE MostSerious(mask)}

\* C12: for a log version of 7 or more the bitmask of a transmitter is the OR
\* of battery_state over the dive samples, for older versions it is 0; a
\* successful pass publishes no entry for a transmitter whose bitmask is 0,
\* and else one entry: "critical" when the critical bit is set, else
\* "warning" when the warning bit is set, else "normal".
C12_BatteryTable ==
    parser.cached = 1 =>
        \A tx \in Transmitters :
            LET mask == TransmitterMask(parser, data, tx[2])
                entry == Published(parser, tx[1])
            IN  IF mask = 0
                THEN entry.n = 0
                ELSE entry.n = 1 /\ entry.values = {MostSerious(mask)}

\* C12 happens: a pass has published "critical" for a transmitter that
\* reported normal, critical and warning, and nothing for the other
C12_AllStatesSeen ==
    /\ parser.cached = 1
    /\ parser.logversion >= 7
    /\ TransmitterMask(parser, data, 27) = 7
    /\ TransmitterMask(parser, data, 19) = 0
    /\ Published(parser, "T1 battery").values = {"critical"}

\* the elements of opening[] and closing[] the call that has returned added a
\* constant to: the pass itself reads at opening[0..4] (lines 583-644, 391,
\* 392, 415), get_datetime at opening[0] (line 283), get_field at closing[0]
\* (lines 679-687), the replay at opening[0] (line 777) and, for a PNF of log
\* version 9 or more, at opening[5] (line 750)
OffsetsUsed(p, call) ==
    {p.opening[i + 1] : i \in 0..4}
    \cup (IF call = "get_field" THEN {p.closing[1]} ELSE {})
    \cup (IF call = "samples_foreach" /\ p.pnf # 0 /\ p.logversion >= 9
          THEN {p.opening[6]} ELSE {})

\* C13: no query adds a constant to an element of opening[] or closing[] that
\* holds UNDEFINED.  The pass verifies the classes 0..4 only, and the replay
\* reads the sample interval at opening[5] + 23 without a test.
C13_SentinelChecked ==
    (op \in Queries /\ parser.cached = 1) =>
        UNDEFINED \notin OffsetsUsed(parser, op)

\* the offsets of the records of a PNF buffer whose type byte is t
RecordsOfType(p, d, t) == {o \in RecordOffsets(p, d) : Byte(d, o) = t}

\* the classes 0..4 without an opening record or without a closing record
MissingClasses(p, d) ==
    {i \in 0..(NRECORDS - 3) :
        \/ RecordsOfType(p, d, LOG_RECORD_OPENING_0 + i) = {}
        \/ RecordsOfType(p, d, LOG_RECORD_CLOSING_0 + i) = {}}

\* C14: after a query on a PNF buffer the pass has failed with a data-format
\* error exactly when a class 0..4 lacks an opening or a closing record, and
\* after a successful pass opening[i] and closing[i] hold the offset of the
\* first record of class i in the buffer.  The sweep assigns the offset at
\* every record of a class (lines 561, 564), so the last record stays.
C14_FirstRecordKept ==
    (op \in Queries /\ Size(data) >= 2 /\ DetectPnf(parser, data) = 1) =>
        /\ (parser.cached = 0 /\ rc = "DATAFORMAT") <=> MissingClasses(parser, data) # {}
        /\ parser.cached = 1 =>
              \A i \in 0..(NRECORDS - 1) :
                  LET opens == RecordsOfType(parser, data, LOG_RECORD_OPENING_0 + i)
                      closes == RecordsOfType(parser, data, LOG_RECORD_CLOSING_0 + i)
                  IN  /\ opens # {} => \A o \in opens : parser.opening[i + 1] <= o
                      /\ closes # {} => \A o \in closes : parser.closing[i + 1] <= o

\* the temperature byte of the dive sample at o, read as a signed char
SignedTemperature(p, d, o) ==
    LET raw == Byte(d, o + DetectPnf(p, d) + 13)
    IN  IF raw >= 128 THEN raw - 256 ELSE raw

\* the temperatures (before the unit conversion) reported for the record at o
ReportedTemperatures(seq, o) ==
    {seq[i].v[1] : i \in {j \in 1..Len(seq) : seq[j].at = o /\ seq[j].type = "TEMPERATURE"}}

\* C15: for every dive sample a replay reports, the temperature before the
\* unit conversion is the signed byte s when s >= 0, s + 102 when that is not
\* above 0 (s in -128..-102) and 0 for every other negative s (-101..-1); a
\* negative byte never gives a positive temperature, and gives one in -26..0.
C15_TemperatureFold ==
    (op = "samples_foreach" /\ hasCallback /\ rc = "SUCCESS") =>
        \A o \in DiveOffsets(parser, data) :
            o < ReplayEnd(parser, data) =>
                LET s == SignedTemperature(parser, data, o)
                IN  /\ Count(emitted, o, "TEMPERATURE") = 1
                    /\ \A t \in ReportedTemperatures(emitted, o) :
                          /\ s >= 0 => t = s
                          /\ (s < 0 /\ s + 102 <= 0) => t = s + 102
                          /\ (s < 0 /\ s + 102 > 0) => t = 0
                          /\ s < 0 => t \in (0 - 26)..0

\* C15 happens: a replay has reported 0 for a dive sample whose temperature
\* byte is 0xFF (-1, folded to 101)
C15_MinusOneClamped ==
    /\ op = "samples_foreach" /\ hasCallback /\ rc = "SUCCESS"
    /\ \E o \in DiveOffsets(parser, data) :
          /\ Byte(data, o + DetectPnf(parser, data) + 13) = ByteMax
          /\ ReportedTemperatures(emitted, o) = {0}

\* the values passed as DC_SAMPLE_TIME, in the order of the calls
SampleTimes(seq) ==
    LET times == SelectSeq(seq, LAMBDA e : e.type = "TIME")
    IN  [n \in 1..Len(times) |-> times[n].v]

\* C16: the times a successful replay reports are strictly increasing, each
\* one sample interval after the one before it (the first one interval after
\* 0).  A stored interval of 0 ms passes the test of line 751 and every
\* sample is reported at time 0.
C16_TimesIncrease ==
    (op = "samples_foreach" /\ hasCallback /\ rc = "SUCCESS") =>
        LET times == SampleTimes(emitted)
        IN  /\ \A n \in 1..(Len(times) - 1) : times[n] < times[n + 1]
            /\ \A n \in 2..(Len(times) - 1) :
                  times[n + 1] - times[n] = times[n] - times[n - 1]
            /\ Len(times) >= 2 => times[2] - times[1] = times[1]

=============================================================================
